---- MODULE Spec2Model ----
(***************************************************************************)
(* A model of the PerfLite stack-trace parsing engine                      *)
(* (rust/src/simd.rs, rust/src/parser.rs, rust/src/utils.rs).              *)
(*                                                                         *)
(* Text is a sequence of one-character strings; Code gives the byte value  *)
(* of a character.  "#" stands for a byte >= 128 (part of a multi-byte     *)
(* UTF-8 character).                                                       *)
(***************************************************************************)
EXTENDS Integers, Sequences, FiniteSets, TLC

VARIABLES
    simd,     \* scanner: TRUE when built with target_feature = "simd128"
    bytes,    \* scanner: the input buffer of simd_extract_numbers
    i,        \* scanner: offset of the current chunk / tail position
    j,        \* scanner: position of the walk inside the current chunk
    result,   \* scanner: the Vec<u32> being built
    spans,    \* scanner: history of the slices bytes[start..end] that were pushed
    pc,       \* scanner: position in the call
    call,     \* scanner: the operation of SimdParser that was called
    pairs,    \* scanner: the Vec<u32> of simd_extract_line_column
    loads,    \* scanner: history of the offsets given to v128_load
    reads,    \* scanner: history of the indices k of the reads bytes[k]
    op,       \* parser: the operation called on the stack text
    stack,    \* parser: the input text
    lines,    \* parser: the lines the text was split into
    li,       \* parser: index of the line being processed (1-based)
    ppc,      \* parser: position in the operation; in parse, the rule to try
    out,      \* parser: the String that ErrorParser::parse builds
    frames,   \* parser: the Vec<StackFrame> built; for parse, the history of
              \*         the arguments given to format_stack_frame
    src,      \* parser: history, for each frame the line and rule it came from
    chrome_regex,   \* ErrorParser: the first rule
    firefox_regex,  \* ErrorParser: the second rule
    safari_regex,   \* ErrorParser: the third rule
    framework_map,  \* ErrorParser: the framework table
    calls     \* parser: number of calls made on the ErrorParser so far

scanVars == <<simd, bytes, i, j, result, spans, pc, call, pairs, loads, reads>>

instVars == <<chrome_regex, firefox_regex, safari_regex, framework_map, calls>>

parseVars == <<op, stack, lines, li, ppc, out, frames, src,
               chrome_regex, firefox_regex, safari_regex, framework_map, calls>>

vars == <<simd, bytes, i, j, result, spans, pc, call, pairs, loads, reads,
          op, stack, lines, li, ppc, out, frames, src,
          chrome_regex, firefox_regex, safari_regex, framework_map, calls>>

-----------------------------------------------------------------------------
(* Bounds of the scanner inputs *)

MaxLead == 16
MaxRun == 11
MaxRun2 == 2
MaxTrail == 5

-----------------------------------------------------------------------------
(* Characters and bytes *)

Code ==
    [c \in {"0", "1", "2", "3", "4", "5", "6", "7", "8", "9", "+", "-",
            ":", "x", "#", "a", "t", "f", " ", "(", ")", "@", "/", "|", "\n",
            "<", ">", "n", "o", "y", "m", "u", "s"} |->
        CASE c = "0" -> 48 [] c = "1" -> 49 [] c = "2" -> 50 [] c = "3" -> 51
          [] c = "4" -> 52 [] c = "5" -> 53 [] c = "6" -> 54 [] c = "7" -> 55
          [] c = "8" -> 56 [] c = "9" -> 57 [] c = "+" -> 43 [] c = "-" -> 45
          [] c = ":" -> 58 [] c = "x" -> 120 [] c = "#" -> 200
          [] c = "a" -> 97 [] c = "t" -> 116 [] c = "f" -> 102 [] c = " " -> 32
          [] c = "(" -> 40 [] c = ")" -> 41 [] c = "@" -> 64 [] c = "/" -> 47
          [] c = "|" -> 124 [] c = "\n" -> 10 [] c = "<" -> 60 [] c = ">" -> 62
          [] c = "n" -> 110 [] c = "o" -> 111 [] c = "y" -> 121
          [] c = "m" -> 109 [] c = "u" -> 117 [] c = "s" -> 115]

ChunkSize == 16

\* bytes[j] >= b'0' && bytes[j] <= b'9'   (also char::is_ascii_digit)
IsDigitByte(c) == Code[c] >= 48 /\ Code[c] <= 57

\* one lane of i8x16_ge(chunk, '0') AND i8x16_le(chunk, '9'): signed compare
I8(b) == IF b >= 128 THEN b - 256 ELSE b

LaneIsDigit(c) == I8(Code[c]) >= 48 /\ I8(Code[c]) <= 57

Rep(c, n) == [k \in 1..n |-> c]

\* the slice s[a..b) of a 0-based buffer held in a 1-based sequence
Slice(s, a, b) == IF b <= a THEN <<>> ELSE SubSeq(s, a + 1, b)

\* the byte at 0-based offset k
At(s, k) == s[k + 1]

-----------------------------------------------------------------------------
(* str::parse::<u32>.  A u32 does not fit a TLC integer, so a parsed value  *)
(* is held as its decimal digits without leading zeros (what Display       *)
(* prints); ParseErr stands for Err(_).                                    *)

ParseErr == <<"Err">>

Zero == <<"0">>

\* u32::MAX = 4294967295
U32MaxDigits == <<"4", "2", "9", "4", "9", "6", "7", "2", "9", "5">>

RECURSIVE StripZeros(_)
StripZeros(s) ==
    IF Len(s) > 1 /\ Head(s) = "0" THEN StripZeros(Tail(s)) ELSE s

RECURSIVE LexLeq(_, _)
\* a <= b for digit sequences of equal length
LexLeq(a, b) ==
    IF a = <<>> THEN TRUE
    ELSE IF Code[Head(a)] < Code[Head(b)] THEN TRUE
    ELSE IF Code[Head(a)] > Code[Head(b)] THEN FALSE
    ELSE LexLeq(Tail(a), Tail(b))

\* the checked multiply-and-add of from_str_radix does not overflow
FitsU32(d) ==
    \/ Len(d) < Len(U32MaxDigits)
    \/ Len(d) = Len(U32MaxDigits) /\ LexLeq(d, U32MaxDigits)

ParseDigits(s) ==
    IF \E k \in 1 .. Len(s) : ~IsDigitByte(s[k]) THEN ParseErr
    ELSE LET d == StripZeros(s)
         IN  IF FitsU32(d) THEN d ELSE ParseErr

ParseU32(s) ==
    IF s = <<>> THEN ParseErr
    ELSE IF Head(s) = "+"
         THEN IF Tail(s) = <<>> THEN ParseErr ELSE ParseDigits(Tail(s))
    ELSE IF Head(s) = "-" THEN ParseErr
    ELSE ParseDigits(s)

IsOk(v) == v # ParseErr

-----------------------------------------------------------------------------
(* The scalar strategy: split on non-digits, drop empty pieces, parse *)

\* |c: char| !c.is_ascii_digit()
NotDigit(c) == ~IsDigitByte(c)

RECURSIVE SplitOnNonDigit(_, _)
\* str::split(pred): the pieces between separators, empty pieces included
SplitOnNonDigit(s, cur) ==
    IF s = <<>> THEN <<cur>>
    ELSE IF NotDigit(Head(s)) THEN <<cur>> \o SplitOnNonDigit(Tail(s), <<>>)
    ELSE SplitOnNonDigit(Tail(s), Append(cur, Head(s)))

RECURSIVE FilterMapParse(_)
FilterMapParse(pieces) ==
    IF pieces = <<>> THEN <<>>
    ELSE LET p == Head(pieces)
             v == ParseU32(p)
         IN  IF p # <<>> /\ IsOk(v)
             THEN <<v>> \o FilterMapParse(Tail(pieces))
             ELSE FilterMapParse(Tail(pieces))

ScalarNumbers(s) == FilterMapParse(SplitOnNonDigit(s, <<>>))

-----------------------------------------------------------------------------
(* The batch strategy, step by step *)

\* i8x16_bitmask(is_digit) != 0 for the chunk loaded at offset k
DigitMaskNonZero(s, k) ==
    \E l \in k .. k + ChunkSize - 1 : LaneIsDigit(At(s, l))

RECURSIVE RunEnd(_, _)
\* while j < len && bytes[j] is a digit { j += 1 }
RunEnd(s, k) ==
    IF k < Len(s) /\ IsDigitByte(At(s, k)) THEN RunEnd(s, k + 1) ELSE k

\* result after "if let Ok(num) = num_str.parse::<u32>() { result.push(num) }"
PushParsed(res, s, start, end) ==
    LET v == ParseU32(Slice(s, start, end))
    IN  IF end > start /\ IsOk(v) THEN Append(res, v) ELSE res

PushSpan(sp, s, start, end) ==
    LET v == ParseU32(Slice(s, start, end))
    IN  IF end > start /\ IsOk(v) THEN Append(sp, <<start, end>>) ELSE sp

-----------------------------------------------------------------------------
(* String operations of the standard library used by the parsers *)

\* char::is_whitespace, also the regex class \s, on the characters modelled
IsSpace(c) == c = " "

\* str::find(pat) from offset k: the least 0-based offset >= k where pat
\* occurs, or -1
RECURSIVE FindFrom(_, _, _)
FindFrom(s, pat, k) ==
    IF k + Len(pat) > Len(s) THEN -1
    ELSE IF Slice(s, k, k + Len(pat)) = pat THEN k
    ELSE FindFrom(s, pat, k + 1)

\* str::contains(pat)
Contains(s, pat) == FindFrom(s, pat, 0) >= 0

RECURSIVE SplitStr(_, _)
\* str::split(pat) for a non-empty pattern: non-overlapping, left to right
SplitStr(s, pat) ==
    LET k == FindFrom(s, pat, 0)
    IN  IF k < 0 THEN <<s>>
        ELSE <<Slice(s, 0, k)>> \o SplitStr(Slice(s, k + Len(pat), Len(s)), pat)

RECURSIVE JoinStr(_, _)
\* [&str]::join(sep)
JoinStr(parts, sep) ==
    IF parts = <<>> THEN <<>>
    ELSE IF Len(parts) = 1 THEN parts[1]
    ELSE parts[1] \o sep \o JoinStr(Tail(parts), sep)

\* [^\s\(]
IsNameChar(c) == ~IsSpace(c) /\ c # "("

\* the character classes of the patterns: \s, [^\s\(], \d, [^:], '(' and ')'
InClass(cls, c) ==
    CASE cls = "space" -> IsSpace(c)
      [] cls = "name" -> IsNameChar(c)
      [] cls = "digit" -> IsDigitByte(c)
      [] cls = "notcolon" -> c # ":"
      [] cls = "nonspace" -> ~IsSpace(c)
      [] cls = "open" -> c = "("
      [] cls = "close" -> c = ")"

RECURSIVE TrimStartMatches(_, _)
\* str::trim_start_matches
TrimStartMatches(cls, s) ==
    IF s # <<>> /\ InClass(cls, Head(s)) THEN TrimStartMatches(cls, Tail(s)) ELSE s

RECURSIVE TrimEndMatches(_, _)
\* str::trim_end_matches
TrimEndMatches(cls, s) ==
    IF s # <<>> /\ InClass(cls, s[Len(s)])
    THEN TrimEndMatches(cls, SubSeq(s, 1, Len(s) - 1)) ELSE s

\* str::trim
Trim(s) == TrimEndMatches("space", TrimStartMatches("space", s))

\* str::split('\n')
SplitNewline(s) == SplitStr(s, <<"\n">>)

\* str::lines(): the pieces between line feeds, without a last empty piece
LinesOf(s) ==
    LET ps == SplitStr(s, <<"\n">>)
    IN  IF ps[Len(ps)] = <<>> THEN SubSeq(ps, 1, Len(ps) - 1) ELSE ps

\* the greatest offset e >= k such that s[k..e) satisfies P throughout
RECURSIVE SpanWhile(_, _, _)
SpanWhile(cls, s, k) ==
    IF k < Len(s) /\ InClass(cls, At(s, k)) THEN SpanWhile(cls, s, k + 1) ELSE k

-----------------------------------------------------------------------------
(* What the bounds-checked accesses of the batch strategy touch *)

\* the indices at which the inner loop "while j < len && bytes[j] is a digit"
\* reads bytes[j] when it starts at k: the test j < len comes first
InnerReadsUnchecked(s, k) == k .. RunEnd(s, k)

InnerReads(s, k) == { m \in k .. RunEnd(s, k) : m < Len(s) }

\* the indices read by one iteration of a walk or of the tail at position k
StepReads(s, k) ==
    {k} \cup (IF k < Len(s) /\ IsDigitByte(At(s, k)) THEN InnerReads(s, k) ELSE {})

\* bytes[k] and &bytes[start..end] are bounds-checked
IndexInRange(s, k) == 0 <= k /\ k < Len(s)

SliceInRange(s, start, end) == 0 <= start /\ start <= end /\ end <= Len(s)

-----------------------------------------------------------------------------
(* simd_extract_line_column *)

\* numbers.len() >= 2, the guard of "0..numbers.len() - 1"
HasPairAlways(numbers) == TRUE

HasPair(numbers) == Len(numbers) >= 2

RECURSIVE PairsFrom(_, _)
\* for i in k..numbers.len() - 1 { push(numbers[i]); push(numbers[i + 1]) }
PairsFrom(numbers, k) ==
    IF k < Len(numbers) - 1
    THEN <<numbers[k + 1], numbers[k + 2]>> \o PairsFrom(numbers, k + 1)
    ELSE <<>>

RECURSIVE SplitWhitespaceFrom(_, _)
\* str::split_whitespace from offset k: the maximal pieces without whitespace
SplitWhitespaceFrom(s, k) ==
    IF k >= Len(s) THEN <<>>
    ELSE IF IsSpace(At(s, k)) THEN SplitWhitespaceFrom(s, k + 1)
    ELSE LET e == SpanWhile("nonspace", s, k)
         IN  <<Slice(s, k, e)>> \o SplitWhitespaceFrom(s, e)

SplitWhitespace(s) == SplitWhitespaceFrom(s, 0)

\* for p in parts { if let Ok(num) = p.parse::<u32>() { result.push(num) } }
RECURSIVE ColonNumbers(_)
ColonNumbers(whole) ==
    IF whole = <<>> THEN <<>>
    ELSE LET parts == SplitStr(Head(whole), <<":">>)
             here == IF Contains(Head(whole), <<":">>) /\ Len(parts) >= 2
                     THEN FilterMapParse(parts)
                     ELSE <<>>
         IN  here \o ColonNumbers(Tail(whole))

\* the body of the build without simd128
ScalarLineColumn(s) == ColonNumbers(SplitWhitespace(s))

-----------------------------------------------------------------------------
(* The calls of SimdParser::parse_numbers and SimdParser::parse_line_column *)

\* lines of stack traces given to the numeric fast path
ScanLines ==
    { <<" ", "a", "t", " ", "f", " ", "(", "/", "a", ":", "7", ":", "1", "2", ")">>,
      <<" ", "a", "t", " ", "f", " ", "(", "/", "a", "/", "a", "/", "a", "/", ":",
        "1", "2", ":", "7", ")">>,
      <<"f", "@", "/", "a", ":", "1", "2", ":", "7">>,
      <<"a", ":", "7", ":", "1", "2", ":", "7">>,
      <<"7", " ", "1", "2">>,
      <<"x", " ", "7", ":", "1", "2", " ", ":", " ", "7", ":">> }

ScanInputs ==
    { Rep("x", p) \o Rep(d, r) \o <<":">> \o Rep("7", t) \o Rep("#", q) :
        p \in 0..MaxLead, d \in {"1", "9"}, r \in 0..MaxRun,
        t \in 0..MaxRun2, q \in 0..MaxTrail }
    \cup {<<>>} \cup ScanLines

Calls == { "parse_numbers", "parse_line_column" }

InitScan ==
    /\ simd \in BOOLEAN
    /\ call \in Calls
    /\ bytes \in ScanInputs
    /\ i = 0
    /\ j = 0
    /\ result = <<>>
    /\ pairs = <<>>
    /\ spans = <<>>
    /\ loads = {}
    /\ reads = {}
    /\ pc = "start"
    /\ op = "none" /\ stack = <<>> /\ lines = <<>> /\ li = 0 /\ ppc = "off"
    /\ out = <<>> /\ frames = <<>> /\ src = <<>>
    /\ chrome_regex = "none" /\ firefox_regex = "none" /\ safari_regex = "none"
    /\ framework_map = <<>> /\ calls = 0

\* cfg(target_feature = "simd128"): enter the chunk loop
EnterBatch ==
    /\ pc = "start" /\ simd
    /\ pc' = "chunk"
    /\ UNCHANGED <<simd, call, bytes, i, j, result, pairs, spans, loads, reads>>
    /\ UNCHANGED parseVars

\* cfg(not(target_feature = "simd128")): the iterator chain
ScalarExtract ==
    /\ pc = "start" /\ ~simd /\ call = "parse_numbers"
    /\ result' = ScalarNumbers(bytes)
    /\ pc' = "done"
    /\ UNCHANGED <<simd, call, bytes, i, j, pairs, spans, loads, reads>>
    /\ UNCHANGED parseVars

\* while i + 16 <= len { load chunk; if digit_mask != 0 { j = i; ... } }
ChunkLoad ==
    /\ pc = "chunk"
    /\ i + ChunkSize <= Len(bytes)
    /\ loads' = loads \cup {i}
    /\ IF DigitMaskNonZero(bytes, i)
       THEN /\ j' = i
            /\ pc' = "walk"
            /\ i' = i
       ELSE /\ i' = i + ChunkSize
            /\ UNCHANGED <<j, pc>>
    /\ UNCHANGED <<simd, call, bytes, result, pairs, spans, reads>>
    /\ UNCHANGED parseVars

\* one iteration of "while j < i + 16 && j < len"
WalkStep ==
    /\ pc = "walk"
    /\ j < i + ChunkSize /\ j < Len(bytes)
    /\ reads' = reads \cup StepReads(bytes, j)
    /\ IF \E k \in StepReads(bytes, j) : ~IndexInRange(bytes, k)
       THEN /\ pc' = "panic"
            /\ UNCHANGED <<j, result, spans>>
       ELSE IF IsDigitByte(At(bytes, j))
       THEN LET e == RunEnd(bytes, j)
            IN  IF SliceInRange(bytes, j, e)
                THEN /\ result' = PushParsed(result, bytes, j, e)
                     /\ spans' = PushSpan(spans, bytes, j, e)
                     /\ j' = e + 1
                     /\ pc' = pc
                ELSE /\ pc' = "panic"
                     /\ UNCHANGED <<j, result, spans>>
       ELSE /\ j' = j + 1
            /\ UNCHANGED <<result, spans, pc>>
    /\ UNCHANGED <<simd, call, bytes, i, pairs, loads>>
    /\ UNCHANGED parseVars

\* the walk is over: i += 16
WalkEnd ==
    /\ pc = "walk"
    /\ ~(j < i + ChunkSize /\ j < Len(bytes))
    /\ i' = i + ChunkSize
    /\ pc' = "chunk"
    /\ UNCHANGED <<simd, call, bytes, j, result, pairs, spans, loads, reads>>
    /\ UNCHANGED parseVars

\* the chunk loop is over: go on with the remaining bytes
ChunkExit ==
    /\ pc = "chunk"
    /\ ~(i + ChunkSize <= Len(bytes))
    /\ pc' = "tail"
    /\ UNCHANGED <<simd, call, bytes, i, j, result, pairs, spans, loads, reads>>
    /\ UNCHANGED parseVars

\* one iteration of "while i < len"
TailStep ==
    /\ pc = "tail"
    /\ i < Len(bytes)
    /\ reads' = reads \cup StepReads(bytes, i)
    /\ IF \E k \in StepReads(bytes, i) : ~IndexInRange(bytes, k)
       THEN /\ pc' = "panic"
            /\ UNCHANGED <<i, result, spans>>
       ELSE IF IsDigitByte(At(bytes, i))
       THEN LET e == RunEnd(bytes, i)
            IN  IF SliceInRange(bytes, i, e)
                THEN /\ result' = PushParsed(result, bytes, i, e)
                     /\ spans' = PushSpan(spans, bytes, i, e)
                     /\ i' = e + 1
                     /\ pc' = pc
                ELSE /\ pc' = "panic"
                     /\ UNCHANGED <<i, result, spans>>
       ELSE /\ i' = i + 1
            /\ UNCHANGED <<result, spans, pc>>
    /\ UNCHANGED <<simd, call, bytes, j, pairs, loads>>
    /\ UNCHANGED parseVars

\* the tail is over: simd_extract_numbers returns result
TailExit ==
    /\ pc = "tail"
    /\ ~(i < Len(bytes))
    /\ pc' = "done"
    /\ UNCHANGED <<simd, call, bytes, i, j, result, pairs, spans, loads, reads>>
    /\ UNCHANGED parseVars

\* simd_extract_line_column with simd128: pair up the numbers of
\* simd_extract_numbers
PairUp ==
    /\ pc = "done" /\ simd /\ call = "parse_line_column"
    /\ IF HasPair(result)
       THEN IF Len(result) - 1 < 0
            THEN /\ pc' = "panic"
                 /\ UNCHANGED pairs
            ELSE /\ pairs' = PairsFrom(result, 0)
                 /\ pc' = "paired"
       ELSE /\ pairs' = <<>>
            /\ pc' = "paired"
    /\ UNCHANGED <<simd, call, bytes, i, j, result, spans, loads, reads>>
    /\ UNCHANGED parseVars

\* simd_extract_line_column without simd128
ScalarPairs ==
    /\ pc = "start" /\ ~simd /\ call = "parse_line_column"
    /\ pairs' = ScalarLineColumn(bytes)
    /\ pc' = "paired"
    /\ UNCHANGED <<simd, call, bytes, i, j, result, spans, loads, reads>>
    /\ UNCHANGED parseVars

NextScan ==
    \/ EnterBatch
    \/ ScalarExtract
    \/ ChunkLoad
    \/ WalkStep
    \/ WalkEnd
    \/ ChunkExit
    \/ TailStep
    \/ TailExit
    \/ PairUp
    \/ ScalarPairs

SpecScan == InitScan /\ [][NextScan]_vars


-----------------------------------------------------------------------------
(* The three rules of ErrorParser::new.  A capture group that did not take *)
(* part in the match is None.                                              *)

None == <<"None">>

\* the patterns compiled by ErrorParser::new
ChromePattern == "at\\s+([^\\s\\(]+)?\\s*(\\(([^)]+)\\))?"

FirefoxPattern == "([^@]*)@(.+):(\\d+):(\\d+)"

SafariPattern == "([^@]*)@([^:]+):(\\d+):(\\d+)"

NoMatch == [matched |-> FALSE]

\* at\s+([^\s\(]+)?\s*(\(([^)]+)\))?  searched in the line, leftmost first,
\* every quantifier greedy
RECURSIVE ChromeStart(_, _)
ChromeStart(line, k) ==
    IF k + 3 > Len(line) THEN -1
    ELSE IF At(line, k) = "a" /\ At(line, k + 1) = "t" /\ IsSpace(At(line, k + 2))
         THEN k
    ELSE ChromeStart(line, k + 1)

ChromeCaptures(line) ==
    LET k == ChromeStart(line, 0)
    IN  IF k < 0 THEN NoMatch
        ELSE LET p1 == SpanWhile("space", line, k + 2)
                 p2 == SpanWhile("name", line, p1)
                 p3 == SpanWhile("space", line, p2)
                 q  == FindFrom(line, <<")">>, p3 + 1)
                 hasLoc == /\ p3 < Len(line)
                           /\ At(line, p3) = "("
                           /\ q > p3 + 1
             IN  [matched |-> TRUE,
                  g1 |-> IF p2 > p1 THEN Slice(line, p1, p2) ELSE None,
                  g3 |-> IF hasLoc THEN Slice(line, p3 + 1, q) ELSE None]

\* the offsets of '@' in the line, in increasing order
AtSigns(line) ==
    LET P == { k \in 0 .. Len(line) - 1 : At(line, k) = "@" }
        F[n \in 0 .. Cardinality(P)] ==
            IF n = 0 THEN <<>>
            ELSE LET prev == F[n - 1]
                     m == CHOOSE k \in P :
                            /\ \A l \in 1 .. Len(prev) : prev[l] < k
                            /\ \A k2 \in P :
                                 (\A l \in 1 .. Len(prev) : prev[l] < k2) => k <= k2
                 IN  Append(prev, m)
    IN  F[Cardinality(P)]

\* :(\d+):(\d+) matched at offset e, every \d+ greedy
TailAt(line, e) ==
    LET d1 == SpanWhile("digit", line, e + 1)
        d2 == SpanWhile("digit", line, d1 + 1)
    IN  /\ e < Len(line) /\ At(line, e) = ":"
        /\ d1 > e + 1
        /\ d1 < Len(line) /\ At(line, d1) = ":"
        /\ d2 > d1 + 1

TailCaptures(line, e) ==
    LET d1 == SpanWhile("digit", line, e + 1)
        d2 == SpanWhile("digit", line, d1 + 1)
    IN  <<Slice(line, e + 1, d1), Slice(line, d1 + 1, d2)>>

\* the same for ([^@]*)@(/.+):(\d+):(\d+): the path starts with a slash
FirefoxAttemptSlashPath(line, s, q) ==
    LET E == { e \in q + 3 .. Len(line) - 1 : TailAt(line, e) }
    IN  IF E = {} \/ At(line, q + 1) # "/" THEN NoMatch
        ELSE LET e == CHOOSE x \in E : \A y \in E : y <= x
                 tc == TailCaptures(line, e)
             IN  [matched |-> TRUE, g1 |-> Slice(line, s, q),
                  g2 |-> Slice(line, q + 1, e), g3 |-> tc[1], g4 |-> tc[2]]

\* ([^@]*)@(.+):(\d+):(\d+) attempted with group 1 starting at s and the
\* '@' at q: (.+) is greedy, so it ends at the greatest offset that works
FirefoxAttempt(line, s, q) ==
    LET E == { e \in q + 2 .. Len(line) - 1 : TailAt(line, e) }
    IN  IF E = {} THEN NoMatch
        ELSE LET e == CHOOSE x \in E : \A y \in E : y <= x
                 tc == TailCaptures(line, e)
             IN  [matched |-> TRUE, g1 |-> Slice(line, s, q),
                  g2 |-> Slice(line, q + 1, e), g3 |-> tc[1], g4 |-> tc[2]]

\* ([^@]*)@([^:]+):(\d+):(\d+) attempted with group 1 starting at s and the
\* '@' at q: ([^:]+) runs to the first colon
SafariAttempt(line, s, q) ==
    LET e == SpanWhile("notcolon", line, q + 1)
    IN  IF e > q + 1 /\ TailAt(line, e)
        THEN LET tc == TailCaptures(line, e)
             IN  [matched |-> TRUE, g1 |-> Slice(line, s, q),
                  g2 |-> Slice(line, q + 1, e), g3 |-> tc[1], g4 |-> tc[2]]
        ELSE NoMatch

\* Regex::captures: the match with the leftmost start.  A match that starts
\* at s takes [^@]* up to the next '@', so the starts to try are 0 and the
\* offsets just after each '@'.
RECURSIVE LeftmostAttempt(_, _, _, _)
LeftmostAttempt(rule, line, ats, n) ==
    IF n > Len(ats) THEN NoMatch
    ELSE LET s == IF n = 1 THEN 0 ELSE ats[n - 1] + 1
             r == IF rule = FirefoxPattern THEN FirefoxAttempt(line, s, ats[n])
                  ELSE SafariAttempt(line, s, ats[n])
         IN  IF r.matched THEN r
             ELSE LeftmostAttempt(rule, line, ats, n + 1)

\* Regex::captures of one of the two at-sign rules
Captures(regex, line) == LeftmostAttempt(regex, line, AtSigns(line), 1)

FirefoxCaptures(line) == Captures(FirefoxPattern, line)

SafariCaptures(line) == Captures(SafariPattern, line)

\* "<anonymous>"
\* framework_map after the three inserts
FrameworkTable ==
    [ k \in { "node_modules/react", "node_modules/vue", "node_modules/angular" } |->
        CASE k = "node_modules/react" -> "React"
          [] k = "node_modules/vue" -> "Vue"
          [] k = "node_modules/angular" -> "Angular" ]


Anonymous == <<"<", "a", "n", "o", "n", "y", "m", "o", "u", "s", ">">>

-----------------------------------------------------------------------------
(* Frames *)

\* StackFrame::new
StackFrame(func, file, line, col) ==
    [function_name |-> func, file_name |-> file,
     line_number |-> line, column_number |-> col]

\* a push at the front instead of the back
PushFrameFront(fs, f) == <<f>> \o fs

\* Vec::push
PushFrame(fs, f) == Append(fs, f)

\* str::parse::<u32>().unwrap_or(0)
ParseOrZero(s) == LET v == ParseU32(s) IN IF IsOk(v) THEN v ELSE Zero

\* caps.get(1).map_or("<anonymous>", |m| m.as_str())
NameOrAnonymous(g) == IF g = None THEN Anonymous ELSE g

\* format!("{}:{}:{}|{}", file, line, col, func)
format_stack_frame(func, file, line, col) ==
    file \o <<":">> \o line \o <<":">> \o col \o <<"|">> \o func

\* a frame only when the line and the column both parse
ChromeHasFrameStrict(caps) ==
    /\ caps.g3 # None
    /\ LET loc_parts == SplitStr(caps.g3, <<":">>)
           n == Len(loc_parts)
       IN  /\ n >= 3
           /\ ParseU32(loc_parts[n - 1]) # <<"Err">>
           /\ ParseU32(loc_parts[n]) # <<"Err">>

\* if let Some(location) = caps.get(3) { ...; if loc_parts.len() >= 3 { ... } }
ChromeHasFrame(caps) ==
    /\ caps.g3 # None
    /\ Len(SplitStr(caps.g3, <<":">>)) >= 3

\* the frame the bracketed rule builds from its captures
ChromeFrame(caps) ==
    LET loc_parts == SplitStr(caps.g3, <<":">>)
        n == Len(loc_parts)
    IN  StackFrame(NameOrAnonymous(caps.g1),
                   JoinStr(SubSeq(loc_parts, 1, n - 2), <<":">>),
                   ParseOrZero(loc_parts[n - 1]),
                   ParseOrZero(loc_parts[n]))

\* the frame the two at-sign rules build from their captures
AtSignFrame(caps) ==
    StackFrame(NameOrAnonymous(caps.g1), caps.g2,
               ParseOrZero(caps.g3), ParseOrZero(caps.g4))

\* the frame SimdParser::parse_stack_simd builds from a line containing " at "
StackSimdFrame(line) ==
    LET parts == SplitStr(line, <<" ", "a", "t", " ">>)
        func_part == Trim(parts[2])
        name_end == FindFrom(func_part, <<"(">>, 0)
    IN  IF name_end >= 0
        THEN LET file_part ==
                     TrimEndMatches("close",
                         TrimStartMatches("open",
                             Slice(func_part, name_end, Len(func_part))))
                 location_parts == SplitStr(file_part, <<":">>)
                 l == IF Len(location_parts) > 1
                      THEN ParseOrZero(location_parts[2]) ELSE Zero
                 c == IF Len(location_parts) > 2
                      THEN ParseOrZero(location_parts[3]) ELSE Zero
             IN  StackFrame(Trim(Slice(func_part, 0, name_end)),
                            location_parts[1], l, c)
        ELSE StackFrame(func_part, <<>>, Zero, Zero)

\* loc_parts[0..len-2], loc_parts[len-2] and loc_parts[len-1]: the subtraction
\* len - 2 does not underflow and the indices are inside loc_parts
ChromeIndexInRange(caps) ==
    LET n == Len(SplitStr(caps.g3, <<":">>))
    IN  n - 2 >= 0 /\ n - 1 < n

\* parts[1], func_part[..name_end], func_part[name_end..], location_parts[0]
StackSimdIndexInRange(line) ==
    LET parts == SplitStr(line, <<" ", "a", "t", " ">>)
    IN  /\ Len(parts) > 1
        /\ LET func_part == Trim(parts[2])
               name_end == FindFrom(func_part, <<"(">>, 0)
           IN  name_end >= 0 =>
                   /\ name_end <= Len(func_part)
                   /\ Len(SplitStr(TrimEndMatches("close",
                              TrimStartMatches("open",
                                  Slice(func_part, name_end, Len(func_part)))),
                          <<":">>)) >= 1

RECURSIVE FramesOfLines(_)
\* the frames of the lines, each line given to the three rules in priority
\* order, the first rule that matches deciding the line
FramesOfLines(ls) ==
    IF ls = <<>> THEN <<>>
    ELSE LET line == Head(ls)
             c == ChromeCaptures(line)
             f == FirefoxCaptures(line)
             a == SafariCaptures(line)
             here == IF c.matched
                     THEN IF ChromeHasFrame(c) THEN <<ChromeFrame(c)>> ELSE <<>>
                     ELSE IF f.matched \/ a.matched
                     THEN <<AtSignFrame(IF f.matched THEN f ELSE a)>>
                     ELSE <<>>
         IN  here \o FramesOfLines(Tail(ls))

\* ErrorParser::parse_frames
parse_frames(text) ==
    IF text = <<>> THEN <<>> ELSE FramesOfLines(SplitNewline(text))

\* serde_json::to_string of one ExportedStackFrame.  The text is a sequence of
\* tokens: a key with its punctuation is one token, the characters of a value
\* are one token each (the characters modelled need no escape)
JsonFrame(f) ==
    <<"{", "\"function_name\":", "\"">> \o f.function_name \o
    <<"\"", ",", "\"file_name\":", "\"">> \o f.file_name \o
    <<"\"", ",", "\"line_number\":">> \o f.line_number \o
    <<",", "\"column_number\":">> \o f.column_number \o <<"}">>

RECURSIVE JsonFrames(_)
JsonFrames(fs) ==
    IF fs = <<>> THEN <<>>
    ELSE IF Len(fs) = 1 THEN JsonFrame(fs[1])
    ELSE JsonFrame(fs[1]) \o <<",">> \o JsonFrames(Tail(fs))

\* serde_json::to_string(&exported_frames)
ToJson(fs) == <<"[">> \o JsonFrames(fs) \o <<"]">>

-----------------------------------------------------------------------------
(* Bounds of the parser inputs *)

MaxSegs == 4
MaxLines == 3
MaxCalls == 2

(* Parser inputs *)

Overflow == <<"9", "9", "9", "9", "9", "9", "9", "9", "9", "9">>

SegPool == { <<>>, <<"/", "a">>, <<"7">>, Overflow }

\* locations: one to MaxSegs segments joined by colons
Locations ==
    UNION { { JoinStr(ss, <<":">>) : ss \in [1 .. n -> SegPool] } : n \in 1 .. MaxSegs }

BracketLines ==
    { lead \o <<"a", "t", " ">> \o name \o <<"(">> \o loc \o <<")">> :
        lead \in { <<>>, <<" ">> },
        name \in { <<>>, <<"f", " ">> },
        loc \in Locations }

AtSignLines ==
    { name \o <<"@">> \o loc : name \in { <<>>, <<"f">> }, loc \in Locations }

OtherLines ==
    { <<>>,
      <<"x", " ", "x">>,
      <<"f", "a", "t">>,
      <<"x", " ", "a", "t", " ", "f">>,
      <<" ", "a", "t", " ", "f", " ", "x", " ", "(", "/", "a", ":", "7", ":", "1", "2", ")">>,
      <<" ", "a", "t", " ", "f", "(", "/", "a", ":", "7", ":", "1", "2", ")">>,
      <<" ", "a", "t", " ", "f", " ", "(", "/", "a", ":", "7", ":", "1", "2">>,
      <<" ", "a", "t", " ", "f", " ", "(", ")">>,
      <<"x", " ", "a", "t", " ", "f", "@", "/", "a", ":", "7", ":", "1", "2">>,
      <<"f", "@", "/", "a", ":", "7", ":", "1", "2", " ", "x">>,
      <<"@", ":", "@", "f", ":", "7", ":", "1", "2">>,
      <<"f", "@", "(", "/", "a", ":", "7", ":", "1", "2", ")">> }

SingleLines == BracketLines \cup AtSignLines \cup OtherLines

\* the lines that multi-line texts are made of
LinePool ==
    { <<" ", "a", "t", " ", "f", " ", "(", "/", "a", ":", "7", ":", "1", "2", ")">>,
      <<"f", "@", "/", "a", ":", "1", "2", ":", "7">>,
      <<"x", " ", "x">>,
      <<" ", "a", "t", " ", "f">>,
      <<"@", "/", "a", ":", "7", ":", "7">> }

Texts ==
    {<<>>} \cup SingleLines \cup
    UNION { { JoinStr(ls, <<"\n">>) : ls \in [1 .. n -> LinePool] } : n \in 2 .. MaxLines }

\* the texts given to an ErrorParser that has already served a call
ReuseTexts ==
    { <<>>,
      <<" ", "a", "t", " ", "f", " ", "(", "/", "a", ":", "7", ":", "1", "2", ")">>,
      <<"f", "@", "/", "a", ":", "1", "2", ":", "7">>,
      <<"x", " ", "x", "\n", "@", "/", "a", ":", "7", ":", "7">> }

Ops == { "parse", "parse_simd", "parse_stack_simd", "export_parse" }

\* the operations that take &self of an ErrorParser
SelfOps == { "parse", "parse_simd" }

InitParse ==
    /\ op \in Ops
    /\ stack \in Texts
    /\ lines = <<>>
    /\ li = 0
    /\ ppc = "start"
    /\ out = <<>>
    /\ frames = <<>>
    /\ src = <<>>
    /\ chrome_regex = ChromePattern
    /\ firefox_regex = FirefoxPattern
    /\ safari_regex = SafariPattern
    /\ framework_map = FrameworkTable
    /\ calls = 1
    /\ simd = FALSE /\ bytes = <<>> /\ i = 0 /\ j = 0
    /\ result = <<>> /\ spans = <<>> /\ pc = "off"
    /\ call = "none" /\ pairs = <<>> /\ loads = {} /\ reads = {}

-----------------------------------------------------------------------------
(* ErrorParser::parse *)

\* if stack.is_empty() { return String::new() }; split('\n')
ParseBegin ==
    /\ op = "parse" /\ ppc = "start"
    /\ IF stack = <<>>
       THEN /\ ppc' = "done"
            /\ UNCHANGED <<lines, li>>
       ELSE /\ lines' = SplitNewline(stack)
            /\ li' = 1
            /\ ppc' = "chrome"
    /\ UNCHANGED <<op, stack, out, frames, src>>
    /\ UNCHANGED instVars
    /\ UNCHANGED scanVars

\* result.push_str(&frame); result.push('\n')
Emit(f, rule) ==
    /\ out' = out \o format_stack_frame(f.function_name, f.file_name,
                                        f.line_number, f.column_number) \o <<"\n">>
    /\ frames' = PushFrame(frames, f)
    /\ src' = Append(src, [line |-> li, rule |-> rule])

\* if let Some(caps) = self.chrome_regex.captures(line) { ...; continue }
TryChrome ==
    /\ op = "parse" /\ ppc = "chrome" /\ li <= Len(lines)
    /\ LET caps == ChromeCaptures(lines[li])
       IN  IF caps.matched
           THEN IF ChromeHasFrame(caps)
                THEN IF ChromeIndexInRange(caps)
                     THEN /\ Emit(ChromeFrame(caps), "chrome")
                          /\ li' = li + 1
                          /\ UNCHANGED ppc
                     ELSE /\ ppc' = "panic"
                          /\ UNCHANGED <<li, out, frames, src>>
                ELSE /\ li' = li + 1
                     /\ UNCHANGED <<ppc, out, frames, src>>
           ELSE /\ ppc' = "firefox"
                /\ UNCHANGED <<li, out, frames, src>>
    /\ UNCHANGED <<op, stack, lines>>
    /\ UNCHANGED instVars
    /\ UNCHANGED scanVars

\* the same without the continue: the next rule runs on the same line
TryFirefoxNoContinue ==
    /\ op = "parse" /\ ppc = "firefox"
    /\ LET caps == Captures(firefox_regex, lines[li])
       IN  IF caps.matched
           THEN Emit(AtSignFrame(caps), "firefox")
           ELSE UNCHANGED <<out, frames, src>>
    /\ ppc' = "safari"
    /\ UNCHANGED <<op, stack, lines, li>>
    /\ UNCHANGED instVars
    /\ UNCHANGED scanVars

\* if let Some(caps) = self.firefox_regex.captures(line) { ...; continue }
TryFirefox ==
    /\ op = "parse" /\ ppc = "firefox"
    /\ LET caps == Captures(firefox_regex, lines[li])
       IN  IF caps.matched
           THEN /\ Emit(AtSignFrame(caps), "firefox")
                /\ li' = li + 1
                /\ ppc' = "chrome"
           ELSE /\ ppc' = "safari"
                /\ UNCHANGED <<li, out, frames, src>>
    /\ UNCHANGED <<op, stack, lines>>
    /\ UNCHANGED instVars
    /\ UNCHANGED scanVars

\* if let Some(caps) = self.safari_regex.captures(line) { ... }
TrySafari ==
    /\ op = "parse" /\ ppc = "safari"
    /\ LET caps == Captures(safari_regex, lines[li])
       IN  IF caps.matched
           THEN Emit(AtSignFrame(caps), "safari")
           ELSE UNCHANGED <<out, frames, src>>
    /\ li' = li + 1
    /\ ppc' = "chrome"
    /\ UNCHANGED <<op, stack, lines>>
    /\ UNCHANGED instVars
    /\ UNCHANGED scanVars

\* the same with the second and third rule exchanged on return
ParseEndSwapsRules ==
    /\ op = "parse" /\ ppc = "chrome" /\ li > Len(lines)
    /\ ppc' = "done"
    /\ firefox_regex' = safari_regex
    /\ safari_regex' = firefox_regex
    /\ UNCHANGED <<op, stack, lines, li, out, frames, src>>
    /\ UNCHANGED <<chrome_regex, framework_map, calls>>
    /\ UNCHANGED scanVars

\* the for loop is over: return result
ParseEnd ==
    /\ op = "parse" /\ ppc = "chrome" /\ li > Len(lines)
    /\ ppc' = "done"
    /\ UNCHANGED <<op, stack, lines, li, out, frames, src>>
    /\ UNCHANGED instVars
    /\ UNCHANGED scanVars

-----------------------------------------------------------------------------
(* ErrorParser::parse_simd and SimdParser::parse_stack_simd *)

\* if stack.is_empty() { return frames }; split('\n') or lines()
FramesBegin ==
    /\ op \in {"parse_simd", "parse_stack_simd"} /\ ppc = "start"
    /\ IF stack = <<>>
       THEN /\ ppc' = "done"
            /\ UNCHANGED <<lines, li>>
       ELSE /\ lines' = IF op = "parse_simd" THEN SplitNewline(stack)
                        ELSE LinesOf(stack)
            /\ li' = 1
            /\ ppc' = "line"
    /\ UNCHANGED <<op, stack, out, frames, src>>
    /\ UNCHANGED instVars
    /\ UNCHANGED scanVars

\* one iteration of the for loop of ErrorParser::parse_simd
ParseSimdLine ==
    /\ op = "parse_simd" /\ ppc = "line" /\ li <= Len(lines)
    /\ LET caps == ChromeCaptures(lines[li])
       IN  IF caps.matched /\ ChromeHasFrame(caps)
           THEN IF ChromeIndexInRange(caps)
                THEN /\ frames' = PushFrame(frames, ChromeFrame(caps))
                     /\ src' = Append(src, [line |-> li, rule |-> "chrome"])
                     /\ li' = li + 1
                     /\ UNCHANGED ppc
                ELSE /\ ppc' = "panic"
                     /\ UNCHANGED <<li, frames, src>>
           ELSE /\ li' = li + 1
                /\ UNCHANGED <<ppc, frames, src>>
    /\ UNCHANGED <<op, stack, lines, out>>
    /\ UNCHANGED instVars
    /\ UNCHANGED scanVars

\* one iteration of the for loop of SimdParser::parse_stack_simd
StackSimdLine ==
    /\ op = "parse_stack_simd" /\ ppc = "line" /\ li <= Len(lines)
    /\ IF Contains(lines[li], <<" ", "a", "t", " ">>)
       THEN IF StackSimdIndexInRange(lines[li])
            THEN /\ frames' = PushFrame(frames, StackSimdFrame(lines[li]))
                 /\ src' = Append(src, [line |-> li, rule |-> "at"])
                 /\ li' = li + 1
                 /\ UNCHANGED ppc
            ELSE /\ ppc' = "panic"
                 /\ UNCHANGED <<li, frames, src>>
       ELSE /\ li' = li + 1
            /\ UNCHANGED <<ppc, frames, src>>
    /\ UNCHANGED <<op, stack, lines, out>>
    /\ UNCHANGED instVars
    /\ UNCHANGED scanVars

\* the for loop is over: return frames
FramesEnd ==
    /\ op \in {"parse_simd", "parse_stack_simd"} /\ ppc = "line"
    /\ li > Len(lines)
    /\ ppc' = "done"
    /\ UNCHANGED <<op, stack, lines, li, out, frames, src>>
    /\ UNCHANGED instVars
    /\ UNCHANGED scanVars

-----------------------------------------------------------------------------
(* The exported parse of lib.rs, and the reuse of one ErrorParser *)

\* the same with the early return of ErrorParser::parse: String::new()
ExportParseEmptyString ==
    /\ op = "export_parse" /\ ppc = "start"
    /\ IF stack = <<>>
       THEN /\ out' = <<>>
            /\ UNCHANGED frames
       ELSE \E fs \in {parse_frames(stack)} :
                /\ frames' = fs
                /\ out' = ToJson(fs)
    /\ ppc' = "done"
    /\ UNCHANGED <<op, stack, lines, li, src>>
    /\ UNCHANGED instVars
    /\ UNCHANGED scanVars

\* if stack.is_empty() { return "[]" }; parse_frames; serde_json::to_string
ExportParse ==
    /\ op = "export_parse" /\ ppc = "start"
    /\ IF stack = <<>>
       THEN /\ out' = <<"[", "]">>
            /\ UNCHANGED frames
       ELSE \E fs \in {parse_frames(stack)} :
                /\ frames' = fs
                /\ out' = ToJson(fs)
    /\ ppc' = "done"
    /\ UNCHANGED <<op, stack, lines, li, src>>
    /\ UNCHANGED instVars
    /\ UNCHANGED scanVars

\* the caller gives the same ErrorParser another text
NextCall ==
    /\ op \in SelfOps /\ ppc = "done" /\ calls < MaxCalls
    /\ op' \in SelfOps
    /\ stack' \in ReuseTexts
    /\ lines' = <<>> /\ li' = 0 /\ ppc' = "start"
    /\ out' = <<>> /\ frames' = <<>> /\ src' = <<>>
    /\ calls' = calls + 1
    /\ UNCHANGED <<chrome_regex, firefox_regex, safari_regex, framework_map>>
    /\ UNCHANGED scanVars

NextParse ==
    \/ ExportParse
    \/ NextCall
    \/ ParseBegin
    \/ TryChrome
    \/ TryFirefox
    \/ TrySafari
    \/ ParseEnd
    \/ FramesBegin
    \/ ParseSimdLine
    \/ StackSimdLine
    \/ FramesEnd

SpecParse == InitParse /\ [][NextParse]_vars

-----------------------------------------------------------------------------
(* The whole engine: a call of the scanner or of a line parser *)

Init == InitScan \/ InitParse

Next == NextScan \/ NextParse

Spec == Init /\ [][Next]_vars

-----------------------------------------------------------------------------
(* Maximal digit runs, stated on the buffer alone *)

\* [a, b) is a maximal run of ASCII digits of s
IsMaximalRun(s, a, b) ==
    /\ 0 <= a /\ a < b /\ b <= Len(s)
    /\ \A k \in a .. b - 1 : IsDigitByte(At(s, k))
    /\ (a = 0 \/ ~IsDigitByte(At(s, a - 1)))
    /\ (b = Len(s) \/ ~IsDigitByte(At(s, b)))

MaximalRuns(s) ==
    { r \in (0 .. Len(s)) \X (0 .. Len(s)) : IsMaximalRun(s, r[1], r[2]) }

\* the run fits in u32
RunFits(s, r) == IsOk(ParseU32(Slice(s, r[1], r[2])))

FittingRuns(s) == { r \in MaximalRuns(s) : RunFits(s, r) }

RECURSIVE SortedRuns(_)
\* the runs of a set, by increasing start offset
SortedRuns(R) ==
    IF R = {} THEN <<>>
    ELSE LET m == CHOOSE r \in R : \A q \in R : r[1] <= q[1]
         IN  <<m>> \o SortedRuns(R \ {m})

RunValues(s) ==
    LET rs == SortedRuns(FittingRuns(s))
    IN  [k \in 1 .. Len(rs) |-> ParseU32(Slice(s, rs[k][1], rs[k][2]))]

\* number of whole chunks the chunk loop processes
NumChunks(s) == Len(s) \div ChunkSize

\* the run starts inside a processed chunk and ends after that chunk's end
Straddles(s, r) ==
    \E c \in 0 .. NumChunks(s) - 1 :
        /\ c * ChunkSize <= r[1] /\ r[1] < (c + 1) * ChunkSize
        /\ r[2] > (c + 1) * ChunkSize

\* number of pushed slices that lie inside the run r
PushedInside(sp, r) ==
    Cardinality({ k \in 1 .. Len(sp) : r[1] <= sp[k][1] /\ sp[k][2] <= r[2] })

-----------------------------------------------------------------------------
(* Claims about the numeric scanner *)

\* C1: when the batch strategy has finished, its result is the sequence the
\* pure scalar strategy returns for the same buffer.
C1_BatchEqualsScalar ==
    (pc = "done" /\ simd) => result = ScalarNumbers(bytes)

\* C2: when the batch strategy has finished, every maximal digit run that
\* fits in u32 and straddles the end of a processed chunk has contributed
\* exactly one pushed slice, the run itself.
C2_StraddlingRunOnce ==
    (pc = "done" /\ simd) =>
        \A r \in FittingRuns(bytes) :
            Straddles(bytes, r) =>
                /\ PushedInside(spans, r) = 1
                /\ \E k \in 1 .. Len(spans) : spans[k] = r

\* C3: when parse_numbers has finished (either backend), its result is, in
\* order of appearance, the value of every maximal digit run that fits in
\* u32 and nothing else.
C3_ExactlyFittingRuns ==
    pc = "done" => result = RunValues(bytes)

-----------------------------------------------------------------------------
(* What one line contributes, stated on the line alone *)

\* the first rule, in the order bracketed, full-path at-sign, bare at-sign,
\* that matches the line
FirstRule(line) ==
    IF ChromeCaptures(line).matched THEN "chrome"
    ELSE IF FirefoxCaptures(line).matched THEN "firefox"
    ELSE IF SafariCaptures(line).matched THEN "safari"
    ELSE "none"

\* the entries (none or one) that ErrorParser::parse owes to a line
ParseEntries(line) ==
    CASE FirstRule(line) = "chrome" ->
            IF ChromeHasFrame(ChromeCaptures(line))
            THEN <<ChromeFrame(ChromeCaptures(line))>> ELSE <<>>
      [] FirstRule(line) = "firefox" -> <<AtSignFrame(FirefoxCaptures(line))>>
      [] FirstRule(line) = "safari" -> <<AtSignFrame(SafariCaptures(line))>>
      [] OTHER -> <<>>

\* the frames (none or one) that ErrorParser::parse_simd owes to a line
ParseSimdEntries(line) ==
    IF ChromeCaptures(line).matched /\ ChromeHasFrame(ChromeCaptures(line))
    THEN <<ChromeFrame(ChromeCaptures(line))>> ELSE <<>>

FormatEntry(line) ==
    IF ParseEntries(line) = <<>> THEN <<>>
    ELSE LET f == ParseEntries(line)[1]
         IN  format_stack_frame(f.function_name, f.file_name,
                                f.line_number, f.column_number) \o <<"\n">>

RECURSIVE InOrder(_, _)
\* what the lines owe, line after line: the entries of parse, the frames of
\* parse_simd, or the text of parse
InOrder(what, ls) ==
    IF ls = <<>> THEN <<>>
    ELSE (CASE what = "parse" -> ParseEntries(Head(ls))
            [] what = "parse_simd" -> ParseSimdEntries(Head(ls))
            [] what = "text" -> FormatEntry(Head(ls)))
         \o InOrder(what, Tail(ls))

Finished(o) == op = o /\ ppc = "done" /\ stack # <<>>

-----------------------------------------------------------------------------
(* Claims about the line parsers *)

\* C4: when parse or parse_simd has finished, its entries are the entries of
\* the input lines in the order of the lines, equal lines each keeping
\* their own entry; the history of source lines is strictly increasing.
C4_OrderPreserved ==
    /\ Finished("parse") =>
          /\ frames = InOrder("parse", lines)
          /\ out = InOrder("text", lines)
    /\ Finished("parse_simd") => frames = InOrder("parse_simd", lines)
    /\ op \in {"parse", "parse_simd"} =>
          \A k \in 1 .. Len(src) - 1 : src[k].line < src[k + 1].line

\* a finished parse of a text in which two equal lines each gave an entry
C4_Witness ==
    /\ Finished("parse")
    /\ \E k, l \in 1 .. Len(src) :
          /\ k < l
          /\ lines[src[k].line] = lines[src[l].line]
          /\ frames[k] = frames[l]
    /\ \E k, l \in 1 .. Len(src) : k < l /\ frames[k] # frames[l]

\* C5: in parse, the at-sign full-path rule is tried on a line only after
\* the bracketed rule failed on it, the bare-location rule only after both
\* failed; every entry comes from the first rule that matches its line, and
\* no line has more than one entry.
C5_FirstMatchWins ==
    op = "parse" =>
        /\ ppc = "firefox" => ~ChromeCaptures(lines[li]).matched
        /\ ppc = "safari" =>
              /\ ~ChromeCaptures(lines[li]).matched
              /\ ~FirefoxCaptures(lines[li]).matched
        /\ \A k \in 1 .. Len(src) : src[k].rule = FirstRule(lines[src[k].line])
        /\ \A k, l \in 1 .. Len(src) : src[k].line = src[l].line => k = l

\* the at-sign full-path rule has matched a line after the bracketed rule
\* failed on it, and the parse has moved on to the next line
C5_Witness ==
    /\ op = "parse" /\ ppc = "chrome" /\ li > 1
    /\ Len(src) > 0
    /\ src[Len(src)].line = li - 1
    /\ src[Len(src)].rule = "firefox"
    /\ SafariCaptures(lines[li - 1]).matched

\* the line has a parenthesised location of at least three colon-separated
\* parts after "at name"
BracketedShape(line) ==
    /\ ChromeCaptures(line).matched
    /\ ChromeCaptures(line).g3 # None
    /\ Len(SplitStr(ChromeCaptures(line).g3, <<":">>)) >= 3

\* the line has a name@path:line:column part
AtSignShape(line) ==
    FirefoxCaptures(line).matched \/ SafariCaptures(line).matched

\* the colon-separated parts of the parenthesised location
LocParts(line) == SplitStr(ChromeCaptures(line).g3, <<":">>)

\* C6: when parse or parse_simd has finished, it has returned exactly one
\* frame for every line that has the shape of one of the conventions, so
\* the number of frames is the number of such lines.
C6_OneFramePerShapedLine ==
    (Finished("parse") \/ Finished("parse_simd")) =>
        /\ \A k \in 1 .. Len(lines) :
              (BracketedShape(lines[k]) \/ AtSignShape(lines[k])) =>
                  Cardinality({ n \in 1 .. Len(src) : src[n].line = k }) = 1
        /\ Len(frames) =
              Cardinality({ k \in 1 .. Len(lines) :
                              BracketedShape(lines[k]) \/ AtSignShape(lines[k]) })

\* C7: every frame of parse, parse_simd and parse_stack_simd comes from a
\* line that has a parenthesised location or a name@path:line:column part.
C7_NoFrameFromProse ==
    \A n \in 1 .. Len(src) :
        \/ (ChromeCaptures(lines[src[n].line]).matched
              /\ ChromeCaptures(lines[src[n].line]).g3 # None)
        \/ AtSignShape(lines[src[n].line])

\* C8: in every operation, a frame that comes from a bracketed line whose
\* location has at least three parts has the second-to-last part as its
\* line number, the last part as its column number and the parts before
\* them, joined by colons, as its file name.
C8_LastTwoSegments ==
    \A n \in 1 .. Len(src) :
        LET line == lines[src[n].line]
        IN  (BracketedShape(line) /\ src[n].rule \in {"chrome", "at"}) =>
                LET ps == LocParts(line)
                    m == Len(ps)
                IN  /\ frames[n].line_number = ParseOrZero(ps[m - 1])
                    /\ frames[n].column_number = ParseOrZero(ps[m])
                    /\ frames[n].file_name = JoinStr(SubSeq(ps, 1, m - 2), <<":">>)

\* the line and column captures of a line, by the first rule that matches
NumericCaptures(line) ==
    CASE FirstRule(line) = "chrome" ->
            <<LocParts(line)[Len(LocParts(line)) - 1],
              LocParts(line)[Len(LocParts(line))]>>
      [] FirstRule(line) = "firefox" ->
            <<FirefoxCaptures(line).g3, FirefoxCaptures(line).g4>>
      [] FirstRule(line) = "safari" ->
            <<SafariCaptures(line).g3, SafariCaptures(line).g4>>

\* the first matching rule has a line and a column capture on this line
HasNumericCaptures(line) ==
    \/ FirstRule(line) = "chrome" /\ BracketedShape(line)
    \/ FirstRule(line) \in {"firefox", "safari"}

\* the value of a capture, 0 when it does not parse as u32
ValueOrZero(cap) == IF ParseU32(cap) = ParseErr THEN <<"0">> ELSE ParseU32(cap)

NameOmitted(n) ==
    LET line == lines[src[n].line]
    IN  IF src[n].rule = "chrome" THEN ChromeCaptures(line).g1 = None
        ELSE IF src[n].rule = "firefox" THEN FirefoxCaptures(line).g1 = <<>>
        ELSE SafariCaptures(line).g1 = <<>>

\* C10: no entry of parse has an empty function name, and an entry of a
\* line that omits the function name has the name "<anonymous>".
C10_AnonymousSentinel ==
    op = "parse" =>
        \A n \in 1 .. Len(src) :
            /\ frames[n].function_name # <<>>
            /\ NameOmitted(n) => frames[n].function_name = Anonymous

-----------------------------------------------------------------------------
(* Claims about all the operations *)

\* the call has returned its value
Returned ==
    \/ ppc = "done"
    \/ pc = "paired"
    \/ pc = "done" /\ call = "parse_numbers"

\* the order of the positions inside one call
Rank(p) ==
    CASE p \in {"off", "none"} -> 0
      [] p = "start" -> 1
      [] p \in {"chunk", "chrome", "line"} -> 2
      [] p \in {"walk", "firefox"} -> 3
      [] p \in {"tail", "safari"} -> 4
      [] p = "done" -> 5
      [] p = "paired" -> 6
      [] p = "panic" -> 7

\* a step of the scanner moves forward: a later chunk, or in the same chunk a
\* later position of the code, or in the same loop a later byte
ScanAdvances ==
    \/ i' > i
    \/ i' = i /\ Rank(pc') > Rank(pc)
    \/ i' = i /\ pc' = pc /\ j' > j

\* a step of a line parser moves forward: a later call, or in the same call a
\* later line, or on the same line a later rule
ParseAdvances ==
    \/ calls' > calls
    \/ calls' = calls /\ li' > li
    \/ calls' = calls /\ li' = li /\ Rank(ppc') > Rank(ppc)

\* a call that has not returned is at a position that has a next step, and
\* the positions stay inside the bounds that make the loops end
InsideTheCall ==
    /\ pc \in {"off", "start", "chunk", "walk", "tail", "done", "paired"}
    /\ ppc \in {"off", "start", "chrome", "firefox", "safari", "line", "done"}
    /\ i <= Len(bytes) + ChunkSize
    /\ j <= Len(bytes) + 1
    /\ li <= Len(lines) + 1
    /\ calls <= MaxCalls
    /\ ppc \in {"firefox", "safari"} => li <= Len(lines)

\* C11: no operation panics (no index or slice out of range, no subtraction
\* below zero), and every call returns its value: every step moves the call
\* forward inside bounds, so no loop goes on for ever.
C11_NeverPanics ==
    /\ [](pc # "panic" /\ ppc # "panic" /\ InsideTheCall)
    /\ [][IF ppc = "off" THEN ScanAdvances ELSE ParseAdvances]_vars

\* parse_stack_simd has returned a frame for a line with an unclosed
\* parenthesis
C11_Witness ==
    /\ op = "parse_stack_simd" /\ ppc = "done"
    /\ stack = <<" ", "a", "t", " ", "f", " ", "(", "/", "a", ":", "7", ":", "1", "2">>
    /\ Len(frames) = 1

\* C12: on the empty input, parse returns the empty string, parse_simd and
\* parse_stack_simd return no frame, parse_numbers returns no number, and the
\* exported parse returns the JSON text "[]".
C12_EmptyInputEmptyResult ==
    /\ (ppc = "done" /\ stack = <<>>) =>
          /\ op = "parse" => out = <<>> /\ frames = <<>>
          /\ op \in {"parse_simd", "parse_stack_simd"} => frames = <<>>
          /\ op = "export_parse" => out = <<"[", "]">>
    /\ (pc = "done" /\ call = "parse_numbers" /\ bytes = <<>>) => result = <<>>

\* the exported parse has returned for the empty text
C12_Witness ==
    op = "export_parse" /\ ppc = "done" /\ stack = <<>> /\ out = <<"[", "]">>

-----------------------------------------------------------------------------
(* Claims about the line and column extractor *)

\* the numbers that parse_numbers returns for the buffer in this build
NumbersOfCall == IF simd THEN result ELSE ScalarNumbers(bytes)

\* (n1,n2),(n2,n3),...,(n(k-1),nk) flattened; nothing when k < 2
FlattenedPairs(ns) ==
    IF Len(ns) < 2 THEN <<>>
    ELSE [ k \in 1 .. 2 * (Len(ns) - 1) |->
             IF k % 2 = 1 THEN ns[(k + 1) \div 2] ELSE ns[k \div 2 + 1] ]

\* C13: when parse_line_column has returned, its result is the flattened
\* adjacent pairs of the numbers parse_numbers returns for the same input,
\* of length 2*(k-1), and empty when there are fewer than two numbers; in
\* both builds.
C13_AdjacentPairs ==
    pc = "paired" =>
        /\ pairs = FlattenedPairs(NumbersOfCall)
        /\ Len(NumbersOfCall) >= 2 => Len(pairs) = 2 * (Len(NumbersOfCall) - 1)
        /\ Len(NumbersOfCall) < 2 => pairs = <<>>

\* the line and column of the frame that ErrorParser::parse builds from the
\* buffer taken as one line, when it builds one and neither number is 0
FrameNumbers ==
    IF \E k \in 1 .. Len(bytes) : bytes[k] = "\n" THEN <<>>
    ELSE IF ParseEntries(bytes) = <<>> THEN <<>>
    ELSE LET f == ParseEntries(bytes)[1]
         IN  IF f.line_number # Zero /\ f.column_number # Zero
             THEN <<f.line_number, f.column_number>>
             ELSE <<>>

\* C14: when the frame parser builds from a line a frame with non-zero line
\* and column, parse_numbers on that line returns the two numbers as
\* consecutive elements, and parse_line_column returns them as a pair.
C14_FramePathsAgree ==
    FrameNumbers # <<>> =>
        /\ (pc = "done" /\ call = "parse_numbers") =>
              \E k \in 1 .. Len(result) - 1 :
                  result[k] = FrameNumbers[1] /\ result[k + 1] = FrameNumbers[2]
        /\ pc = "paired" =>
              \E k \in 1 .. Len(pairs) \div 2 :
                  pairs[2 * k - 1] = FrameNumbers[1] /\ pairs[2 * k] = FrameNumbers[2]

-----------------------------------------------------------------------------
(* Claims about the ErrorParser instance *)

\* C15: in every state of any sequence of parse and parse_simd calls on one
\* ErrorParser, its three rules and its framework table are those of
\* ErrorParser::new, and a call that has returned has the result that a
\* fresh parser gives for its text alone, whatever calls came before.
C15_ParserUnchanged ==
    /\ chrome_regex = ChromePattern
    /\ firefox_regex = FirefoxPattern
    /\ safari_regex = SafariPattern
    /\ framework_map = FrameworkTable
    /\ (op = "parse" /\ ppc = "done") =>
          /\ stack = <<>> => out = <<>>
          /\ stack # <<>> => out = InOrder("text", SplitNewline(stack))
    /\ (op = "parse_simd" /\ ppc = "done") =>
          /\ stack = <<>> => frames = <<>>
          /\ stack # <<>> => frames = InOrder("parse_simd", SplitNewline(stack))

\* the second call on the same ErrorParser has returned an entry
C15_Witness ==
    /\ calls = 2 /\ op = "parse" /\ ppc = "done"
    /\ Len(frames) = 1
    /\ out # <<>>

-----------------------------------------------------------------------------
(* Claims about the reads of the batch strategy *)

\* C16: every chunk is loaded at an offset i with i + 16 <= len, and every
\* read bytes[j] of the chunk walk and of the tail loop is at an index
\* j < len, whatever the length of the buffer.
C16_ReadsInsideBuffer ==
    /\ \A o \in loads : 0 <= o /\ o + ChunkSize <= Len(bytes)
    /\ \A k \in reads : 0 <= k /\ k < Len(bytes)

\* a finished scan of a buffer whose length is not a multiple of 16, that
\* loaded a chunk and whose last digit run ends with the buffer
C16_Witness ==
    /\ pc = "done" /\ simd
    /\ Len(bytes) % ChunkSize # 0
    /\ loads # {}
    /\ Len(bytes) - 1 \in reads
    /\ IsDigitByte(At(bytes, Len(bytes) - 1))

-----------------------------------------------------------------------------
(* Claims that compare the line parsers *)

\* C17: when parse_stack_simd has returned, its frames are the frames that
\* parse_simd returns for the same text: same count, order, names, files,
\* lines and columns.
C17_StackSimdEqualsParseSimd ==
    (op = "parse_stack_simd" /\ ppc = "done") =>
        frames = IF stack = <<>> THEN <<>>
                 ELSE InOrder("parse_simd", SplitNewline(stack))

RECURSIVE TwoRuleText(_)
\* the text that parse would return if it had the first two rules only
TwoRuleText(ls) ==
    IF ls = <<>> THEN <<>>
    ELSE (IF FirstRule(Head(ls)) \in {"chrome", "firefox"}
          THEN FormatEntry(Head(ls)) ELSE <<>>)
         \o TwoRuleText(Tail(ls))

\* C18: in parse no entry comes from the third rule: when the third rule is
\* tried on a line it fails, every line it matches is matched by the first
\* or the second rule, and the text returned is the text of the first two
\* rules alone.
C18_ThirdRuleNeverFires ==
    op = "parse" =>
        /\ \A n \in 1 .. Len(src) : src[n].rule # "safari"
        /\ ppc = "safari" => ~SafariCaptures(lines[li]).matched
        /\ \A k \in 1 .. Len(lines) :
              SafariCaptures(lines[k]).matched =>
                  \/ ChromeCaptures(lines[k]).matched
                  \/ FirefoxCaptures(lines[k]).matched
        /\ Finished("parse") => out = TwoRuleText(lines)

\* a finished parse with an entry of the second rule for a line that the
\* third rule matches too, with other captures
C18_Witness ==
    /\ Finished("parse")
    /\ \E n \in 1 .. Len(src) :
          /\ src[n].rule = "firefox"
          /\ SafariCaptures(lines[src[n].line]).matched
          /\ AtSignFrame(SafariCaptures(lines[src[n].line])) # frames[n]

====
